---- MODULE Spec2Model ----
(***************************************************************************)
(* A model of cspir: the loop vectorization analyzer                       *)
(* (LoopAnalyzer, src/src/parser.cpp) and the reduction kernel that        *)
(* SPIRVGenerator (src/src/spirv_generator.cpp) emits for a reduction      *)
(* loop, executed by the lanes of one work group, and the generator's      *)
(* module with the elementwise kernel, executed by lanes with global ids.  *)
(***************************************************************************)
EXTENDS Integers, Sequences, FiniteSets, TLC

VARIABLES
    loop,             \* the clang::ForStmt under analysis
    pc,               \* position inside LoopAnalyzer::analyzeWithOptimizer
    Info,             \* the VectorizationInfo being built
    HasDependencies,  \* the local of analyzeWithOptimizer (parser.cpp:205)
    typesChecked,     \* whether checkTypes was evaluated (parser.cpp:229)
    kinfo,            \* the KernelInfo of the emitted reduction kernel
    input,            \* the floats the kernel's Input pointer designates
    groupSize,        \* get_local_size(0) of the executing work group
    lanePc,           \* per lane: the basic block / instruction it is at
    localMem,         \* per lane: the written slots of its local_mem alloca
    output,           \* the float the Result pointer designates
    atomics,          \* the atomicrmw operations performed so far
    module,           \* the functions of the generator's llvm::Module
    calls,            \* the calls of generateKernel made, with their outcome
                      \* and the module as getModule() gave it afterwards
    size,             \* the value passed for the kernel's trailing parameter
    gid,              \* per lane: get_global_id(0), 32 bits
    ewPc,             \* per lane: the block of the elementwise kernel it is at
    arrays,           \* the arrays the kernel's pointer parameters designate
    accesses          \* the loads and stores the lanes have performed

vars == <<loop, pc, Info, HasDependencies, typesChecked,
          kinfo, input, groupSize, lanePc, localMem, output, atomics,
          module, calls, size, gid, ewPc, arrays, accesses>>

analyzerVars == <<loop, pc, Info, HasDependencies, typesChecked>>
kernelVars == <<kinfo, input, groupSize, lanePc, localMem, output, atomics>>
generatorVars == <<module, calls>>
elementwiseVars == <<size, gid, ewPc, arrays, accesses>>

(***************************************************************************)
(* Bounds of the model.                                                    *)
(***************************************************************************)
MaxStmts == 2
MaxGroupSize == 4
MaxCalls == 2
MaxLanes == 2

(***************************************************************************)
(* The defaults of KernelInfo (types.h).                                   *)
(***************************************************************************)
PreferredWorkGroupSize == 256
MaxWorkGroupSize == 1024

(***************************************************************************)
(* The clang AST, as the front end hands it to the analyzer.  Every node   *)
(* has the same shape; kids are in clang's child order, which is the order *)
(* RecursiveASTVisitor traverses them in.                                  *)
(***************************************************************************)
Node(kind, op, type, name, val, kids) ==
    [kind |-> kind, op |-> op, type |-> type, name |-> name, val |-> val, kids |-> kids]

NullStmt == Node("Null", "", "", "", 0, <<>>)

\* The declarations of the functions of test/text1.c (parameters and locals).
VarType(name) ==
    CASE name \in {"arr", "src", "dst"} -> "float*"
      [] name = "iarr" -> "int*"
      [] name = "sum"  -> "float"
      [] name = "x"    -> "float"
      [] OTHER         -> "int"

ElemType(ptrType) == IF ptrType = "float*" THEN "float" ELSE "int"

DeclRef(name) == Node("DeclRefExpr", "", VarType(name), name, 0, <<>>)
IntLit(v) == Node("IntegerLiteral", "", "int", "", v, <<>>)
FloatLit(v) == Node("FloatingLiteral", "", "float", "", v, <<>>)
ImpCast(e, t) == Node("ImplicitCastExpr", "", t, "", 0, <<e>>)
CStyleCast(e, t) == Node("CStyleCastExpr", "", t, "", 0, <<e>>)
Paren(e) == Node("ParenExpr", "", e.type, "", 0, <<e>>)

IsLValue(e) == e.kind \in {"DeclRefExpr", "ArraySubscriptExpr"}
\* An lvalue read is wrapped in an LValueToRValue ImplicitCastExpr.
RV(e) == IF IsLValue(e) THEN ImpCast(e, e.type) ELSE e
\* An implicit conversion to type t, as Sema inserts it.
Conv(e, t) == IF RV(e).type = t THEN RV(e) ELSE ImpCast(RV(e), t)

Subscript(base, idx) ==
    Node("ArraySubscriptExpr", "", ElemType(VarType(base)), "", 0,
         <<RV(DeclRef(base)), RV(idx)>>)

\* A binary arithmetic operator after the usual arithmetic conversions.
Arith(op, l, r) ==
    LET t == IF RV(l).type = RV(r).type THEN RV(l).type ELSE "float"
    IN  Node("BinaryOperator", op, t, "", 0, <<Conv(l, t), Conv(r, t)>>)

Compare(op, l, r) ==
    Node("BinaryOperator", op, "int", "", 0, <<RV(l), RV(r)>>)

Assign(lhs, rhs) ==
    Node("BinaryOperator", "BO_Assign", lhs.type, "", 0, <<lhs, Conv(rhs, lhs.type)>>)

CompoundAssign(op, lhs, rhs) ==
    Node("BinaryOperator", op, lhs.type, "", 0, <<lhs, Conv(rhs, lhs.type)>>)

CompoundStmt(stmts) == Node("CompoundStmt", "", "", "", 0, stmts)

ForStmt(ivar, cond, body) == [ivar |-> ivar, Cond |-> cond, Body |-> body]

(***************************************************************************)
(* The loops analysed: the five loops of test/text1.c, and variations of   *)
(* their statements.                                                       *)
(***************************************************************************)
IdxI == DeclRef("i")
IdxIm1 == Arith("BO_Sub", DeclRef("i"), IntLit(1))
IdxJm1 == Arith("BO_Sub", DeclRef("j"), IntLit(1))
IdxIp1 == Arith("BO_Add", DeclRef("i"), IntLit(1))
IdxIm2 == Arith("BO_Sub", DeclRef("i"), IntLit(2))

\* arr[i] = arr[i] * 2.0f;
StmtScale == Assign(Subscript("arr", IdxI), Arith("BO_Mul", Subscript("arr", IdxI), FloatLit(2)))
\* sum += arr[i];
StmtSum == CompoundAssign("BO_AddAssign", DeclRef("sum"), Subscript("arr", IdxI))
\* arr[i] = arr[i-1] + 1.0f;
StmtDep == Assign(Subscript("arr", IdxI), Arith("BO_Add", Subscript("arr", IdxIm1), FloatLit(1)))
\* arr[i] = (float)iarr[i];
StmtCast == Assign(Subscript("arr", IdxI), CStyleCast(RV(Subscript("iarr", IdxI)), "float"))
\* arr[i] = arr[i] + 1.0f;
StmtInc == Assign(Subscript("arr", IdxI), Arith("BO_Add", Subscript("arr", IdxI), FloatLit(1)))
\* arr[i] = iarr[i] * 2;
StmtMixMul == Assign(Subscript("arr", IdxI), Arith("BO_Mul", Subscript("iarr", IdxI), IntLit(2)))
\* sum += iarr[i];
StmtMixSum == CompoundAssign("BO_AddAssign", DeclRef("sum"), Subscript("iarr", IdxI))
\* sum += arr[i-1];
StmtSumDep == CompoundAssign("BO_AddAssign", DeclRef("sum"), Subscript("arr", IdxIm1))
\* arr[i] = arr[j-1] + 1.0f;
StmtJm1 == Assign(Subscript("arr", IdxI), Arith("BO_Add", Subscript("arr", IdxJm1), FloatLit(1)))
\* arr[i] = arr[i-2] + 1.0f;
StmtIm2 == Assign(Subscript("arr", IdxI), Arith("BO_Add", Subscript("arr", IdxIm2), FloatLit(1)))
\* arr[i] = arr[i+1];
StmtCopy == Assign(Subscript("arr", IdxI), Subscript("arr", IdxIp1))
\* x = arr[i] * 2.0f;
StmtScalar == Assign(DeclRef("x"), Arith("BO_Mul", Subscript("arr", IdxI), FloatLit(2)))
\* arr[i] = 2.0f * arr[i];
StmtLitLeft == Assign(Subscript("arr", IdxI), Arith("BO_Mul", FloatLit(2), Subscript("arr", IdxI)))
\* arr[i] += 1.0f;
StmtElemAcc == CompoundAssign("BO_AddAssign", Subscript("arr", IdxI), FloatLit(1))
\* isum *= iarr[i];
StmtIProd == CompoundAssign("BO_MulAssign", DeclRef("isum"), Subscript("iarr", IdxI))
\* iarr[i] = iarr[i] % 2;
StmtIRem == Assign(Subscript("iarr", IdxI), Arith("BO_Rem", Subscript("iarr", IdxI), IntLit(2)))
\* isum %= iarr[i];
StmtIRemAcc == CompoundAssign("BO_RemAssign", DeclRef("isum"), Subscript("iarr", IdxI))

Stmts ==
    {StmtScale, StmtSum, StmtDep, StmtCast, StmtInc, StmtMixMul, StmtMixSum,
     StmtSumDep, StmtJm1, StmtIm2, StmtCopy, StmtScalar, StmtLitLeft,
     StmtElemAcc, StmtIProd, StmtIRem, StmtIRemAcc}

Bodies == UNION {[1..k -> Stmts] : k \in 1..MaxStmts}

TripLiterals == {4, 8, 128}

\* i < n, i < <literal>, no condition at all, and the bare condition n.
Conds ==
    {Compare("BO_LT", DeclRef("i"), DeclRef("n")), NullStmt, RV(DeclRef("n"))}
    \cup {Compare("BO_LT", DeclRef("i"), IntLit(k)) : k \in TripLiterals}

Loops == {ForStmt("i", c, CompoundStmt(b)) : c \in Conds, b \in Bodies}

(***************************************************************************)
(* clang helpers the analyzers call.                                       *)
(***************************************************************************)
RECURSIVE IgnoreParenImpCasts(_)
IgnoreParenImpCasts(e) ==
    IF e.kind \in {"ParenExpr", "ImplicitCastExpr"}
    THEN IgnoreParenImpCasts(e.kids[1])
    ELSE e

\* RecursiveASTVisitor: a node is visited before its children, the
\* children in order.
RECURSIVE Preorder(_)
RECURSIVE PreorderAll(_)
PreorderAll(kids) ==
    IF kids = <<>> THEN <<>>
    ELSE Preorder(Head(kids)) \o PreorderAll(Tail(kids))
Preorder(n) == <<n>> \o PreorderAll(n.kids)

IsExpr(n) == n.kind \notin {"CompoundStmt", "Null"}

getLHS(bo) == bo.kids[1]
getRHS(bo) == bo.kids[2]
getIdx(ase) == ase.kids[2]

isMultiplicativeOp(bo) == bo.op \in {"BO_Mul", "BO_Div", "BO_Rem"}
isAdditiveOp(bo) == bo.op \in {"BO_Add", "BO_Sub"}
isCompoundAssignmentOp(bo) ==
    bo.op \in {"BO_MulAssign", "BO_DivAssign", "BO_RemAssign", "BO_AddAssign",
               "BO_SubAssign", "BO_ShlAssign", "BO_ShrAssign", "BO_AndAssign",
               "BO_XorAssign", "BO_OrAssign"}
isFloatingType(t) == t = "float"
isIntegerType(t) == t = "int"

Reason(text, num, name) == [text |-> text, num |-> num, name |-> name]
DependencyReason == Reason("Loop-carried dependency detected: array[i-1] access pattern", 0, "")
TripCountReason(k) == Reason("Loop trip count: ", k, "")
SimplePatternReason == Reason("Simple vectorizable pattern detected", 0, "")
ReductionReason(v) == Reason("Reduction operation detected on variable: ", 0, v)
MixedTypesReason == Reason("Mixed computation types detected in loop", 0, "")
FinalDependencyReason == Reason("Loop cannot be vectorized due to dependencies", 0, "")

\* RecursiveASTVisitor<V>::TraverseStmt, defined below once the Visit
\* methods of the four visitors are.
RECURSIVE TraverseStmt(_, _, _)
RECURSIVE TraverseChildren(_, _, _)

(***************************************************************************)
(* LoopAnalyzer::isSimpleVectorizablePattern and its PatternMatcher.       *)
(***************************************************************************)
\* The index is <the induction variable i> - 1.
IsMinusOneIndexOfInductionVar(ase) ==
    LET Idx == IgnoreParenImpCasts(getIdx(ase))
    IN  /\ Idx.kind = "BinaryOperator"
        /\ Idx.op = "BO_Sub"
        /\ IgnoreParenImpCasts(getLHS(Idx)).kind = "DeclRefExpr"
        /\ IgnoreParenImpCasts(getLHS(Idx)).name = "i"
        /\ IgnoreParenImpCasts(getRHS(Idx)).kind = "IntegerLiteral"
        /\ IgnoreParenImpCasts(getRHS(Idx)).val = 1

\* The shape both dependency visitors look for: an index that is a
\* subtraction whose right operand is the integer literal 1.
IsMinusOneIndex(ase) ==
    LET Idx == IgnoreParenImpCasts(getIdx(ase))
    IN  /\ Idx.kind = "BinaryOperator"
        /\ Idx.op = "BO_Sub"
        /\ IgnoreParenImpCasts(getRHS(Idx)).kind = "IntegerLiteral"
        /\ IgnoreParenImpCasts(getRHS(Idx)).val = 1

\* isSimpleOperation accepting a floating literal only.
isSimpleOperationFloatOnly(bo) ==
    /\ isMultiplicativeOp(bo) \/ isAdditiveOp(bo)
    /\ IgnoreParenImpCasts(getLHS(bo)).kind = "ArraySubscriptExpr"
    /\ IgnoreParenImpCasts(getRHS(bo)).kind = "FloatingLiteral"

isSimpleOperation(bo) ==
    IF isMultiplicativeOp(bo) \/ isAdditiveOp(bo)
    THEN LET LHS == IgnoreParenImpCasts(getLHS(bo))
             RHS == IgnoreParenImpCasts(getRHS(bo))
             HasArrayAccess == LHS.kind = "ArraySubscriptExpr"
             HasConstant == RHS.kind \in {"FloatingLiteral", "IntegerLiteral"}
         IN  HasArrayAccess /\ HasConstant
    ELSE FALSE

\* One Visit* call of PatternMatcher on node n, from matcher state m.
PatternMatcherVisit(m, n) ==
    CASE n.kind = "ArraySubscriptExpr" ->
            [m EXCEPT !.HasDependency = @ \/ IsMinusOneIndex(n)]
      [] n.kind = "BinaryOperator" ->
            IF /\ n.op = "BO_Assign"
               /\ IgnoreParenImpCasts(getLHS(n)).kind = "ArraySubscriptExpr"
               /\ IgnoreParenImpCasts(getRHS(n)).kind = "BinaryOperator"
               /\ isSimpleOperation(IgnoreParenImpCasts(getRHS(n)))
               /\ ~m.HasDependency
            THEN [m EXCEPT !.IsSimplePattern = TRUE]
            ELSE m
      [] OTHER -> m

isSimpleVectorizablePattern(FS) ==
    LET Matcher == TraverseStmt("PatternMatcher",
                       [IsSimplePattern |-> FALSE, HasDependency |-> FALSE],
                       FS.Body)
    IN  Matcher.IsSimplePattern /\ ~Matcher.HasDependency

(***************************************************************************)
(* LoopAnalyzer::checkTypes and its TypeChecker.                           *)
(***************************************************************************)
isComputationOp(bo) ==
    bo.op \in {"BO_Mul", "BO_Div", "BO_Add", "BO_Sub",
               "BO_AddAssign", "BO_SubAssign", "BO_MulAssign", "BO_DivAssign"}

\* TypeChecker::VisitExpr on expression E, from checker state c.
TypeCheckerVisit(c, E) ==
    LET numeric(t) == isFloatingType(t) \/ isIntegerType(t)
        c1 == CASE E.kind = "ArraySubscriptExpr" ->
                     [c EXCEPT !.ComputationTypes =
                                   IF numeric(E.type) THEN @ \cup {E.type} ELSE @,
                               !.IndexTypes = @ \cup {getIdx(E).type}]
                [] E.kind = "BinaryOperator" ->
                     IF /\ isComputationOp(E)
                        /\ numeric(E.type)
                        /\ E.type \notin c.IndexTypes
                     THEN [c EXCEPT !.ComputationTypes = @ \cup {E.type}]
                     ELSE c
                [] OTHER -> c
    IN  IF Cardinality(c1.ComputationTypes) > 1
        THEN [c1 EXCEPT !.HasMixedTypes = TRUE,
                        !.Reasons = Append(@, MixedTypesReason)]
        ELSE c1

\* checkTypes(Body, Info): the checker after the traversal; its Reasons are
\* Info.Reasons, its result is ~HasMixedTypes.
checkTypes(Body, reasons) ==
    TraverseStmt("TypeChecker",
        [HasMixedTypes |-> FALSE, Reasons |-> reasons,
         ComputationTypes |-> {}, IndexTypes |-> {}],
        Body)

(***************************************************************************)
(* LoopAnalyzer::isReductionLoop and its ReductionChecker.                 *)
(***************************************************************************)
\* A ReductionChecker that keeps the first match only.
ReductionCheckerVisitFirstOnly(c, BO) ==
    IF /\ ~c.IsReduction
       /\ BO.kind = "BinaryOperator"
       /\ isCompoundAssignmentOp(BO)
       /\ IgnoreParenImpCasts(getLHS(BO)).kind = "DeclRefExpr"
    THEN LET LHS == IgnoreParenImpCasts(getLHS(BO))
         IN  [IsReduction |-> TRUE,
              ReductionVar |-> LHS.name,
              Reasons |-> Append(c.Reasons, ReductionReason(LHS.name))]
    ELSE c

ReductionCheckerVisit(c, BO) ==
    IF /\ BO.kind = "BinaryOperator"
       /\ isCompoundAssignmentOp(BO)
       /\ IgnoreParenImpCasts(getLHS(BO)).kind = "DeclRefExpr"
    THEN LET LHS == IgnoreParenImpCasts(getLHS(BO))
         IN  [IsReduction |-> TRUE,
              ReductionVar |-> LHS.name,
              Reasons |-> Append(c.Reasons, ReductionReason(LHS.name))]
    ELSE c

isReductionLoop(FS, reasons) ==
    TraverseStmt("ReductionChecker",
        [IsReduction |-> FALSE, ReductionVar |-> "", Reasons |-> reasons],
        FS.Body)

(***************************************************************************)
(* The DependencyChecker of analyzeWithOptimizer.                          *)
(***************************************************************************)
DependencyCheckerVisit(c, ASE) ==
    IF ASE.kind = "ArraySubscriptExpr" /\ IsMinusOneIndex(ASE)
    THEN [HasDependencies |-> TRUE,
          Reasons |-> Append(c.Reasons, DependencyReason)]
    ELSE c

(***************************************************************************)
(* The visitors of SPIRVGenerator: the ArgumentCollector of generateKernel *)
(* and the OperationAnalyzer of generateVectorizedLoop.                    *)
(***************************************************************************)
isPointerType(t) == t \in {"float*", "int*"}

\* The variables of the loops are parameters and locals: none has global
\* storage.
hasGlobalStorage(name) == FALSE

ArgumentCollectorVisit(Args, Expr) ==
    IF /\ Expr.kind = "DeclRefExpr"
       /\ (hasGlobalStorage(Expr.name) \/ isPointerType(VarType(Expr.name)))
    THEN Append(Args, Expr.name)
    ELSE Args

isAssignmentOp(bo) == bo.op = "BO_Assign" \/ isCompoundAssignmentOp(bo)

OperationAnalyzerVisit(a, BO) ==
    IF /\ BO.kind = "BinaryOperator"
       /\ isAssignmentOp(BO)
       /\ IgnoreParenImpCasts(getRHS(BO)).kind = "BinaryOperator"
    THEN LET RHS == IgnoreParenImpCasts(getRHS(BO))
             op  == CASE RHS.op = "BO_Add" -> "Add"
                      [] RHS.op = "BO_Mul" -> "Mul"
                      [] RHS.op = "BO_Sub" -> "Sub"
                      [] RHS.op = "BO_Div" -> "Div"
                      [] OTHER -> a.Operation
             FL  == IgnoreParenImpCasts(getRHS(RHS))
         IN  IF FL.kind = "FloatingLiteral"
             THEN [Operation |-> op, Constant |-> FL.val, HasOperation |-> TRUE]
             ELSE [a EXCEPT !.Operation = op]
    ELSE a

\* The Visit* methods visitor V overrides, applied to node S.
Visit(V, st, S) ==
    CASE V = "PatternMatcher" -> PatternMatcherVisit(st, S)
      [] V = "TypeChecker" -> IF IsExpr(S) THEN TypeCheckerVisit(st, S) ELSE st
      [] V = "ReductionChecker" -> ReductionCheckerVisit(st, S)
      [] V = "DependencyChecker" -> DependencyCheckerVisit(st, S)
      [] V = "ArgumentCollector" -> ArgumentCollectorVisit(st, S)
      [] V = "OperationAnalyzer" -> OperationAnalyzerVisit(st, S)

\* The visitor state is evaluated before the traversal goes on with it.
Evaluated(st) == st = st

\* A node is visited before its children, the children in order.
TraverseStmt(V, st, S) ==
    LET visited == Visit(V, st, S)
    IN  IF Evaluated(visited)
        THEN TraverseChildren(V, visited, S.kids)
        ELSE visited

TraverseChildren(V, st, kids) ==
    IF kids = <<>> THEN st
    ELSE LET after == TraverseStmt(V, st, Head(kids))
         IN  IF Evaluated(after)
             THEN TraverseChildren(V, after, Tail(kids))
             ELSE after

DepChecker(FS, reasons) ==
    TraverseStmt("DependencyChecker",
        [HasDependencies |-> FALSE, Reasons |-> reasons],
        FS.Body)

(***************************************************************************)
(* LoopAnalyzer::analyzeWithOptimizer, one action per step of its body.    *)
(***************************************************************************)
InitInfo ==
    [IsVectorizable |-> FALSE,
     Reasons |-> <<>>,
     RecommendedWidth |-> 0,
     IsReduction |-> FALSE,
     IsSimplePattern |-> FALSE,
     HasConstantTripCount |-> FALSE,
     TripCount |-> 0]

\* The trip-count step with a fallback for a condition whose left operand
\* is a bare variable reference.
TripCountStepWithFallback(info, Cond) ==
    IF Cond.kind = "BinaryOperator" /\ getRHS(Cond).kind = "IntegerLiteral"
    THEN [info EXCEPT !.TripCount = getRHS(Cond).val,
                      !.HasConstantTripCount = TRUE,
                      !.Reasons = Append(@, TripCountReason(getRHS(Cond).val))]
    ELSE IF /\ Cond.kind = "BinaryOperator"
            /\ IgnoreParenImpCasts(getLHS(Cond)).kind = "DeclRefExpr"
         THEN [info EXCEPT !.HasConstantTripCount = TRUE,
                           !.Reasons = Append(@,
                               Reason("Loop control variable with predictable access pattern", 0, ""))]
         ELSE info

\* The trip-count step putting its reason in front of the list.
TripCountStepPrepend(info, Cond) ==
    IF Cond.kind = "BinaryOperator" /\ getRHS(Cond).kind = "IntegerLiteral"
    THEN [info EXCEPT !.TripCount = getRHS(Cond).val,
                      !.HasConstantTripCount = TRUE,
                      !.Reasons = <<TripCountReason(getRHS(Cond).val)>> \o @]
    ELSE info

\* The trip-count step: Info after it, for a condition that is there.
TripCountStep(info, Cond) ==
    IF Cond.kind = "BinaryOperator" /\ getRHS(Cond).kind = "IntegerLiteral"
    THEN [info EXCEPT !.TripCount = getRHS(Cond).val,
                      !.HasConstantTripCount = TRUE,
                      !.Reasons = Append(@, TripCountReason(getRHS(Cond).val))]
    ELSE info

\* The decision in which a reduction does not override a dependency.
DecisionPrefixNoOverride(info, hasDeps) ==
    /\ (info.HasConstantTripCount \/ info.IsReduction \/ info.IsSimplePattern)
    /\ ~hasDeps

\* The decision without the simple-pattern operand.
DecisionPrefixNoPattern(info, hasDeps) ==
    /\ (info.HasConstantTripCount \/ info.IsReduction)
    /\ (~hasDeps \/ info.IsReduction)

\* The operands of && that are evaluated before checkTypes is called.
DecisionPrefix(info, hasDeps) ==
    /\ (info.HasConstantTripCount \/ info.IsReduction \/ info.IsSimplePattern)
    /\ (~hasDeps \/ info.IsReduction)

\* The width with the trip count compared by > instead of >=.
SelectWidthStrictlyAbove(info) ==
    IF info.IsReduction THEN 4
    ELSE IF info.HasConstantTripCount /\ info.TripCount > 8 THEN 8
    ELSE 4

\* The width chosen by the trip count alone.
SelectWidthIgnoringReduction(info) ==
    IF info.HasConstantTripCount /\ info.TripCount >= 8 THEN 8 ELSE 4

\* The width chosen for a vectorizable loop.
SelectWidth(info) ==
    IF info.IsReduction THEN 4
    ELSE IF info.HasConstantTripCount /\ info.TripCount >= 8 THEN 8
    ELSE 4

\* The final reason appended to every rejected loop.
FinishInfoAlwaysFinal(info, hasDeps) ==
    IF info.IsVectorizable
    THEN [info EXCEPT !.RecommendedWidth = SelectWidth(info)]
    ELSE [info EXCEPT !.Reasons = Append(@, FinalDependencyReason)]

\* The branches after the decision: the width, or the final reason.
FinishInfo(info, hasDeps) ==
    IF info.IsVectorizable
    THEN [info EXCEPT !.RecommendedWidth = SelectWidth(info)]
    ELSE IF hasDeps
         THEN [info EXCEPT !.Reasons = Append(@, FinalDependencyReason)]
         ELSE info

\* The simple-pattern step (parser.cpp:218-221).
PatternStep(info, FS) ==
    LET simple == isSimpleVectorizablePattern(FS)
    IN  [info EXCEPT !.IsSimplePattern = simple,
                     !.Reasons = IF simple THEN Append(@, SimplePatternReason) ELSE @]

\* The reduction step (parser.cpp:224).
ReductionStep(info, FS) ==
    LET c == isReductionLoop(FS, info.Reasons)
    IN  [info EXCEPT !.IsReduction = c.IsReduction, !.Reasons = c.Reasons]

\* The decision (parser.cpp:227-229): checkTypes runs, and appends its
\* reasons, only when the operands before it are true.
DecisionStep(info, hasDeps, FS) ==
    IF DecisionPrefix(info, hasDeps)
    THEN LET c == checkTypes(FS.Body, info.Reasons)
         IN  [info EXCEPT !.IsVectorizable = ~c.HasMixedTypes,
                          !.Reasons = c.Reasons]
    ELSE [info EXCEPT !.IsVectorizable = FALSE]

\* The verdict analyzeWithOptimizer returns for a loop that has a condition.
analyzeWithOptimizer(FS) ==
    LET d == DepChecker(FS, InitInfo.Reasons)
        afterDeps == [InitInfo EXCEPT !.Reasons = d.Reasons]
        afterTrip == TripCountStep(afterDeps, FS.Cond)
        afterPattern == PatternStep(afterTrip, FS)
        afterReduction == ReductionStep(afterPattern, FS)
        decided == DecisionStep(afterReduction, d.HasDependencies, FS)
    IN  FinishInfo(decided, d.HasDependencies)

KernelIdle ==
    /\ kinfo = [Name |-> [prefix |-> "", line |-> 0], VectorWidth |-> 0, IsReduction |-> FALSE,
                Arguments |-> <<>>,
                PreferredWorkGroupSize |-> PreferredWorkGroupSize,
                MaxWorkGroupSize |-> MaxWorkGroupSize]
    /\ input = <<>>
    /\ groupSize = 0
    /\ lanePc = <<>>
    /\ localMem = <<>>
    /\ output = 0
    /\ atomics = <<>>

\* No kernel was generated and none runs.
GeneratorIdle ==
    /\ module = <<>>
    /\ calls = <<>>

ElementwiseIdle ==
    /\ size = 0
    /\ gid = <<>>
    /\ ewPc = <<>>
    /\ arrays = <<>>
    /\ accesses = {}

Init ==
    /\ loop \in Loops
    /\ pc = "deps"
    /\ Info = InitInfo
    /\ HasDependencies = FALSE
    /\ typesChecked = FALSE
    /\ KernelIdle
    /\ GeneratorIdle
    /\ ElementwiseIdle

CheckDependencies ==
    /\ pc = "deps"
    /\ LET c == DepChecker(loop, Info.Reasons)
       IN  /\ HasDependencies' = c.HasDependencies
           /\ Info' = [Info EXCEPT !.Reasons = c.Reasons]
    /\ pc' = "trip"
    /\ UNCHANGED <<loop, typesChecked, kernelVars, generatorVars, elementwiseVars>>

\* dyn_cast on a null condition dereferences it: the analysis does not return.
CheckTripCount ==
    /\ pc = "trip"
    /\ IF loop.Cond.kind = "Null"
       THEN /\ pc' = "crashed"
            /\ Info' = Info
       ELSE /\ pc' = "pattern"
            /\ Info' = TripCountStep(Info, loop.Cond)
    /\ UNCHANGED <<loop, HasDependencies, typesChecked, kernelVars, generatorVars, elementwiseVars>>

CheckSimplePattern ==
    /\ pc = "pattern"
    /\ Info' = PatternStep(Info, loop)
    /\ pc' = "reduction"
    /\ UNCHANGED <<loop, HasDependencies, typesChecked, kernelVars, generatorVars, elementwiseVars>>

CheckReduction ==
    /\ pc = "reduction"
    /\ Info' = ReductionStep(Info, loop)
    /\ pc' = "decide"
    /\ UNCHANGED <<loop, HasDependencies, typesChecked, kernelVars, generatorVars, elementwiseVars>>

MakeDecision ==
    /\ pc = "decide"
    /\ Info' = DecisionStep(Info, HasDependencies, loop)
    /\ typesChecked' = DecisionPrefix(Info, HasDependencies)
    /\ pc' = "finish"
    /\ UNCHANGED <<loop, HasDependencies, kernelVars, generatorVars, elementwiseVars>>

Finish ==
    /\ pc = "finish"
    /\ Info' = FinishInfo(Info, HasDependencies)
    /\ pc' = "done"
    /\ UNCHANGED <<loop, HasDependencies, typesChecked, kernelVars, generatorVars, elementwiseVars>>

Next ==
    \/ CheckDependencies
    \/ CheckTripCount
    \/ CheckSimplePattern
    \/ CheckReduction
    \/ MakeDecision
    \/ Finish

Spec == Init /\ [][Next]_vars

(***************************************************************************)
(* SPIRVGenerator::generateKernel for a reduction loop, and the kernel     *)
(* that generateReductionKernel, improveReductionKernel and                *)
(* createWorkGroupReduction emit, run by the lanes 0..groupSize-1 of one   *)
(* work group.  local_mem is an alloca: every lane has its own, and a slot *)
(* it has not stored to holds an undefined value.                          *)
(***************************************************************************)
\* The line a loop starts at: the loops of test/text1.c, and a line of its
\* own for any other loop.
getSpellingLineNumber(FS) ==
    CASE FS.Body.kids = <<StmtScale>> -> 4
      [] FS.Body.kids = <<StmtSum>>   -> 13
      [] FS.Body.kids = <<StmtDep>>   -> 22
      [] FS.Body.kids = <<StmtCast>>  -> 30
      [] FS.Body.kids = <<StmtInc>>   -> 38
      [] OTHER -> 60

getKernelName(FS) == [prefix |-> "kernel_line_", line |-> getSpellingLineNumber(FS)]

\* The KernelInfo generateKernel fills in before it emits the kernel.
generateKernel(FS, info) ==
    [Name |-> getKernelName(FS),
     VectorWidth |-> info.RecommendedWidth,
     IsReduction |-> info.IsReduction,
     Arguments |-> TraverseStmt("ArgumentCollector", <<>>, FS.Body),
     PreferredWorkGroupSize |-> PreferredWorkGroupSize,
     MaxWorkGroupSize |-> MaxWorkGroupSize]

\* The StepSize values of the loop that emits the tree rounds.
RECURSIVE ReductionSteps(_, _)
ReductionSteps(StepSize, limit) ==
    IF StepSize < limit
    THEN <<StepSize>> \o ReductionSteps(StepSize * 2, limit)
    ELSE <<>>

Rounds == ReductionSteps(1, kinfo.PreferredWorkGroupSize)
NumRounds == Len(Rounds)

\* The local ids of the lanes that are run.
Lanes == DOMAIN lanePc

\* Where a lane is: in round 0 the entry block up to the first barrier, in
\* round r >= 1 the blocks reduce_<step> and continue_<step> of the r-th
\* step, after the last round the atomic and exit blocks.
At(at, round) == [at |-> at, round |-> round]

\* The floats a load of an uninitialised slot may give.
Undef == {0, 1}

\* createVectorLoad(Input, Width): Width floats from the Input pointer itself.
createVectorLoad(mem, Width) == [k \in 0..(Width - 1) |-> mem[k + 1]]

\* performVectorReduction: element 0, then elements 1..Width-1 added in turn.
RECURSIVE performVectorReduction(_, _)
performVectorReduction(Vec, Width) ==
    IF Width = 1 THEN Vec[0]
    ELSE performVectorReduction(Vec, Width - 1) + Vec[Width - 1]

\* The values a load of slot idx of lane l's local_mem may give.
LoadLocal(l, idx) ==
    IF idx \in DOMAIN localMem[l] THEN {localMem[l][idx]} ELSE Undef

\* local_mem of lane l after a store of v to slot idx.
StoreLocal(l, idx, v) ==
    [k \in (DOMAIN localMem[l]) \cup {idx} |->
        IF k = idx THEN v ELSE localMem[l][k]]

\* Where a lane goes after it has accessed the slots idxs of local_mem.  The
\* buffer has PreferredWorkGroupSize slots; an access outside it is
\* undefined: the lane goes on to next, or it faults and stops.
AccessOutcomes(idxs, next) ==
    IF \A i \in idxs : i < kinfo.PreferredWorkGroupSize
    THEN {next}
    ELSE {next, At("fault", next.round)}

\* A barrier that lets a lane through without waiting for the others.
ArrivedNoWait(l, r) == TRUE

\* Lane l has arrived at, or gone past, the barrier that ends round r.
Arrived(l, r) ==
    \/ lanePc[l].round > r
    \/ lanePc[l].round = r /\ lanePc[l].at = "barrier"

\* LocalId + StepVal <u WGSize.  The operands are 32 bits wide; LocalId is
\* below MaxWorkGroupSize and StepVal below PreferredWorkGroupSize, so the
\* sum does not wrap.
InRange(LocalId, StepVal, WGSize) == (LocalId + StepVal) < WGSize

\* Every lane takes the atomic block.
IsLeaderEveryLane(LocalId) == TRUE

\* LocalId == 0.
IsLeader(LocalId) == LocalId = 0

\* The floats Input points at: all ones, and 1, 2, 3, ...; long enough for
\* a slice of the widest vector for every lane of the group.
InputLen == 8 * (MaxGroupSize + 1)
Inputs == {[k \in 1..InputLen |-> 1], [k \in 1..InputLen |-> k]}

\* for(i = 0; i < n; i++) sum += arr[i];   and the same up to 128.
ReductionLoops ==
    {ForStmt("i", c, CompoundStmt(<<StmtSum>>)) :
        c \in {Compare("BO_LT", DeclRef("i"), DeclRef("n")),
               Compare("BO_LT", DeclRef("i"), IntLit(128))}}

AnalyzerDone(FS) ==
    /\ loop = FS
    /\ pc = "done"
    /\ Info = analyzeWithOptimizer(FS)
    /\ HasDependencies = DepChecker(FS, <<>>).HasDependencies
    /\ typesChecked = TRUE

KernelInit ==
    /\ \E FS \in ReductionLoops :
          /\ AnalyzerDone(FS)
          /\ analyzeWithOptimizer(FS).IsVectorizable
          /\ analyzeWithOptimizer(FS).IsReduction
          /\ kinfo = generateKernel(FS, analyzeWithOptimizer(FS))
    /\ input \in Inputs
    /\ groupSize \in 1..MaxGroupSize
    /\ lanePc = [l \in 0..(groupSize - 1) |-> At("entry", 0)]
    /\ localMem = [l \in 0..(groupSize - 1) |-> <<>>]
    /\ output = 0
    /\ atomics = <<>>
    /\ GeneratorIdle
    /\ ElementwiseIdle

\* entry: load the vector, sum it, store the sum to local_mem[LocalId].
LocalReduce(l) ==
    /\ lanePc[l] = At("entry", 0)
    /\ LET Vec == createVectorLoad(input, kinfo.VectorWidth)
           LocalSum == performVectorReduction(Vec, kinfo.VectorWidth)
       IN  localMem' = [localMem EXCEPT ![l] = StoreLocal(l, l, LocalSum)]
    /\ \E next \in AccessOutcomes({l}, At("barrier", 0)) :
          lanePc' = [lanePc EXCEPT ![l] = next]
    /\ UNCHANGED <<kinfo, input, groupSize, output, atomics, analyzerVars, generatorVars, elementwiseVars>>

\* barrier(CLK_LOCAL_MEM_FENCE): passed once every lane of the group is at it.
Barrier(l) ==
    /\ lanePc[l].at = "barrier"
    /\ \A m \in Lanes : Arrived(m, lanePc[l].round)
    /\ lanePc' = [lanePc EXCEPT ![l] =
                     IF lanePc[l].round < NumRounds
                     THEN At("check", lanePc[l].round + 1)
                     ELSE At("leader", NumRounds + 1)]
    /\ UNCHANGED <<kinfo, input, groupSize, localMem, output, atomics, analyzerVars, generatorVars, elementwiseVars>>

\* The conditional branch to reduce_<step> or continue_<step>.
StepBranch(l) ==
    /\ lanePc[l].at = "check"
    /\ lanePc' = [lanePc EXCEPT ![l] =
                     IF InRange(l, Rounds[lanePc[l].round], groupSize)
                     THEN At("reduce", lanePc[l].round)
                     ELSE At("barrier", lanePc[l].round)]
    /\ UNCHANGED <<kinfo, input, groupSize, localMem, output, atomics, analyzerVars, generatorVars, elementwiseVars>>

\* reduce_<step>: local_mem[LocalId] += local_mem[LocalId + step].
ReduceBlock(l) ==
    /\ lanePc[l].at = "reduce"
    /\ \E Val1 \in LoadLocal(l, l) :
       \E Val2 \in LoadLocal(l, l + Rounds[lanePc[l].round]) :
           localMem' = [localMem EXCEPT ![l] = StoreLocal(l, l, Val1 + Val2)]
    /\ \E next \in AccessOutcomes({l, l + Rounds[lanePc[l].round]},
                                   At("barrier", lanePc[l].round)) :
          lanePc' = [lanePc EXCEPT ![l] = next]
    /\ UNCHANGED <<kinfo, input, groupSize, output, atomics, analyzerVars, generatorVars, elementwiseVars>>

\* The conditional branch on IsLeader to the atomic or the exit block.
LeaderBranch(l) ==
    /\ lanePc[l].at = "leader"
    /\ lanePc' = [lanePc EXCEPT ![l] =
                     IF IsLeader(l)
                     THEN At("atomic", NumRounds + 1)
                     ELSE At("exit", NumRounds + 1)]
    /\ UNCHANGED <<kinfo, input, groupSize, localMem, output, atomics, analyzerVars, generatorVars, elementwiseVars>>

\* atomic: atomicrmw fadd Result, local_mem[0] seq_cst.
AtomicBlock(l) ==
    /\ lanePc[l].at = "atomic"
    /\ \E FinalSum \in LoadLocal(l, 0) :
          /\ output' = output + FinalSum
          /\ atomics' = Append(atomics,
                 [lane |-> l, op |-> "FAdd", value |-> FinalSum,
                  ordering |-> "SequentiallyConsistent"])
    /\ lanePc' = [lanePc EXCEPT ![l] = At("exit", NumRounds + 1)]
    /\ UNCHANGED <<kinfo, input, groupSize, localMem, analyzerVars, generatorVars, elementwiseVars>>

KernelNext ==
    \E l \in Lanes :
        \/ LocalReduce(l)
        \/ Barrier(l)
        \/ StepBranch(l)
        \/ ReduceBlock(l)
        \/ LeaderBranch(l)
        \/ AtomicBlock(l)

KernelSpec == KernelInit /\ [][KernelNext]_vars

\* A lane that can take a step is scheduled: the kernel does not stop while
\* some lane of the group can go on.
FairKernelSpec == KernelSpec /\ WF_vars(KernelNext)

\* Work groups of up to MaxWorkGroupSize lanes, of which the lanes with a few
\* chosen local ids are run; the other lanes of the group are taken to reach
\* every barrier.
LargeGroupSizes ==
    {kinfo.PreferredWorkGroupSize, kinfo.PreferredWorkGroupSize + 1,
     kinfo.MaxWorkGroupSize}

SampledLocalIds(WGSize) ==
    {l \in {0, 127, 128, 255, 256, 1023} : l < WGSize}

LargeGroupInit ==
    /\ \E FS \in ReductionLoops :
          /\ AnalyzerDone(FS)
          /\ analyzeWithOptimizer(FS).IsVectorizable
          /\ analyzeWithOptimizer(FS).IsReduction
          /\ kinfo = generateKernel(FS, analyzeWithOptimizer(FS))
    /\ input \in Inputs
    /\ groupSize \in LargeGroupSizes
    /\ \E run \in SUBSET SampledLocalIds(groupSize) :
          /\ Cardinality(run) \in 1..MaxLanes
          /\ lanePc = [l \in run |-> At("entry", 0)]
          /\ localMem = [l \in run |-> <<>>]
    /\ output = 0
    /\ atomics = <<>>
    /\ GeneratorIdle
    /\ ElementwiseIdle

LargeGroupSpec == LargeGroupInit /\ [][KernelNext]_vars

FairLargeGroupSpec == LargeGroupSpec /\ WF_vars(KernelNext)

(***************************************************************************)
(* 32-bit unsigned integers, as the IR computes with them: two 16-bit      *)
(* halves, so that sums wrap at 2^32.                                      *)
(***************************************************************************)
Half == 65536
U32(hi, lo) == [hi |-> hi, lo |-> lo]
APInt32(k) == U32(k \div Half, k % Half)

\* CreateAdd on i32: the sum modulo 2^32.
CreateAdd(a, b) ==
    LET lo == a.lo + b.lo
    IN  U32((a.hi + b.hi + (lo \div Half)) % Half, lo % Half)

CreateICmpULT(a, b) == a.hi < b.hi \/ (a.hi = b.hi /\ a.lo < b.lo)

\* The element offset of a GEP with an i32 index: the index sign-extended.
GEPOffset(a) ==
    IF a.hi >= Half \div 2 THEN (a.hi - Half) * Half + a.lo
    ELSE a.hi * Half + a.lo

(***************************************************************************)
(* SPIRVGenerator::generateKernel, generateVectorizedLoop and              *)
(* generateReductionKernel: what they add to the generator's Module.       *)
(***************************************************************************)
FunctionName(prefix, line, unique) ==
    [prefix |-> prefix, line |-> line, unique |-> unique]

Function(name, params, kind) == [name |-> name, params |-> params, kind |-> kind]

\* Module::getOrInsertFunction for an OpenCL builtin i32 -> i32 (barrier:
\* i32 -> void).
getOpenCLFunction(mod, Name) ==
    IF \E k \in 1..Len(mod) : mod[k].name = FunctionName(Name, 0, 0)
    THEN mod
    ELSE Append(mod, Function(FunctionName(Name, 0, 0), <<"i32">>, "declaration"))

RECURSIVE getOpenCLFunctions(_, _)
getOpenCLFunctions(mod, Names) ==
    IF Names = <<>> THEN mod
    ELSE getOpenCLFunctions(getOpenCLFunction(mod, Head(Names)), Tail(Names))

\* Function::Create in a module: a name already taken gets a numbered
\* suffix, the number counting the renamings the module has made.
CreateFunctionName(mod, Name) ==
    LET taken == \E k \in 1..Len(mod) :
                    mod[k].name = FunctionName(Name.prefix, Name.line, 0)
        renamed == {k \in 1..Len(mod) : mod[k].name.unique > 0}
    IN  FunctionName(Name.prefix, Name.line,
                     IF taken THEN Cardinality(renamed) + 1 ELSE 0)

\* ArgTypes: the reduction kernel's fixed three, or one pointer for every
\* entry of KInfo.Arguments and the i32 size.
ArgTypes(KInfo) ==
    IF KInfo.IsReduction
    THEN <<"float*", "float*", "i32">>
    ELSE [k \in 1..Len(KInfo.Arguments) |-> "float*"] \o <<"i32">>

\* The builtins a kernel body calls, in the order it first calls them.
BuiltinsCalled(KInfo) ==
    IF KInfo.IsReduction
    THEN <<"get_global_id", "get_local_id", "barrier", "get_local_size">>
    ELSE <<"get_global_id">>

\* The kernel body takes Func->arg_begin() and the two positions after it,
\* whatever arg_size() is.
ParamsRead == {1, 2, 3}

\* How a call can end, and the parameter positions it read.  With three
\* parameters the function verifies.  With more, param 3 is a pointer and
\* the icmp of the i32 sum with it is ill-typed: an assertion failure in
\* IRBuilder, or a function that fails verifyFunction.  With fewer, the
\* positions read lie behind the last parameter: undefined behaviour.
Outcomes(params) ==
    IF params = <<"float*", "float*", "i32">>
    THEN {[result |-> "true", read |-> ParamsRead]}
    ELSE IF Len(params) > 3
    THEN {[result |-> r, read |-> ParamsRead] : r \in {"crash", "false"}}
    ELSE {[result |-> r, read |-> ParamsRead] : r \in {"crash", "false", "true"}}

(***************************************************************************)
(* The elementwise kernel generateVectorizedLoop emits, run by lanes.      *)
(***************************************************************************)
OperationAnalyzer(FS) ==
    TraverseStmt("OperationAnalyzer",
        [Operation |-> "None", Constant |-> 0, HasOperation |-> FALSE],
        FS.Body)

\* Result of the vector branch and ScalarVal of the scalar branch, for one
\* element x.  Floats are modelled by integers.
ApplyOperation(a, x) ==
    IF ~a.HasOperation THEN x
    ELSE CASE a.Operation = "Add" -> x + a.Constant
           [] a.Operation = "Mul" -> x * a.Constant
           [] a.Operation = "Sub" -> x - a.Constant
           [] a.Operation = "Div" -> x \div a.Constant
           [] OTHER -> x

EwLanes == 1..Len(gid)

\* The arrays the host binds to params 1 and 2: those KInfo.Arguments names.
InputArray == kinfo.Arguments[1]
OutputArray == kinfo.Arguments[2]

InBounds(name, i) == 0 <= i /\ i < Len(arrays[name])

Access(l, block, kind, name, i) ==
    [lane |-> l, block |-> block, kind |-> kind, array |-> name, index |-> i]

\* The elements a load of Width floats at element offset base gives; an
\* element outside the array is undefined.
LoadElements(name, base, Width, undef) ==
    [k \in 0..(Width - 1) |->
        IF InBounds(name, base + k) THEN arrays[name][base + k + 1] ELSE undef]

\* The array after a store of Vec at element offset base; what a store
\* outside the array hits is not part of the model.
StoreElements(name, base, Width, Vec) ==
    [arrays EXCEPT ![name] =
        [i \in 1..Len(arrays[name]) |->
            IF i - 1 >= base /\ i - 1 < base + Width
            THEN Vec[i - 1 - base] ELSE arrays[name][i]]]

\* for(i = 0; i < 128; i++) arr[i] = 1.0f;
StmtFill == Assign(Subscript("arr", IdxI), FloatLit(1))

\* arr[i] = arr[i] * 2;
StmtScaleInt == Assign(Subscript("arr", IdxI), Arith("BO_Mul", Subscript("arr", IdxI), IntLit(2)))
\* arr[i] = arr[i] - 1.0f;
StmtDec == Assign(Subscript("arr", IdxI), Arith("BO_Sub", Subscript("arr", IdxI), FloatLit(1)))
\* dst[i] = src[i] * 2.0f;
StmtScaleInto == Assign(Subscript("dst", IdxI), Arith("BO_Mul", Subscript("src", IdxI), FloatLit(2)))

GeneratorBodies ==
    {<<StmtScale>>, <<StmtInc>>, <<StmtSum>>, <<StmtFill>>, <<StmtCopy>>,
     <<StmtScale, StmtInc>>, <<StmtScaleInt>>, <<StmtDec>>, <<StmtScaleInto>>}

GeneratorLoops ==
    {FS \in {ForStmt("i", c, CompoundStmt(b)) :
                c \in {Compare("BO_LT", DeclRef("i"), DeclRef("n")),
                       Compare("BO_LT", DeclRef("i"), IntLit(128))},
                b \in GeneratorBodies} :
        analyzeWithOptimizer(FS).IsVectorizable}

Sizes == {3, 4, 9}
GlobalIds == {APInt32(0), APInt32(1), APInt32(6), U32(Half - 1, Half - 1), U32(Half - 1, Half - 3)}

\* What every array holds when the kernel is launched.
InitialArray == [i \in 1..size |-> 2 * i]

\* The generator as isVectorizable constructs it for a vectorizable loop,
\* and the lanes that will run the kernel.
GeneratorInit ==
    /\ \E FS \in GeneratorLoops : AnalyzerDone(FS)
    /\ KernelIdle
    /\ GeneratorIdle
    /\ size \in Sizes
    /\ \E k \in 1..MaxLanes : gid \in [1..k -> GlobalIds]
    /\ ewPc = [l \in 1..Len(gid) |-> "entry"]
    /\ arrays = [name \in {"arr", "iarr", "src", "dst"} |-> InitialArray]
    /\ accesses = {}

GenerateKernel ==
    /\ Len(calls) < MaxCalls
    /\ \A k \in 1..Len(calls) : calls[k].result # "crash"
    /\ LET KInfo == generateKernel(loop, Info)
           name == CreateFunctionName(module, KInfo.Name)
           params == ArgTypes(KInfo)
           kind == IF KInfo.IsReduction THEN "reduction" ELSE "elementwise"
           after == getOpenCLFunctions(
                        Append(module, Function(name, params, kind)),
                        BuiltinsCalled(KInfo))
       IN  /\ \E o \in Outcomes(params) :
                 calls' = Append(calls,
                     [Name |-> KInfo.Name, Arguments |-> KInfo.Arguments,
                      function |-> name, params |-> params,
                      result |-> o.result, read |-> o.read,
                      module |-> after])
           /\ module' = after
           /\ kinfo' = KInfo
    /\ UNCHANGED <<input, groupSize, lanePc, localMem, output, atomics,
                   analyzerVars, elementwiseVars>>

\* The first generated kernel is a verified elementwise kernel, of the
\* three parameters its body uses.
KernelReady ==
    /\ calls # <<>>
    /\ calls[1].result = "true"
    /\ calls[1].params = <<"float*", "float*", "i32">>
    /\ ~kinfo.IsReduction

VecCheck(GlobalId) ==
    CreateICmpULT(CreateAdd(GlobalId, APInt32(kinfo.VectorWidth - 1)), APInt32(size))

\* entry: the conditional branch on VecCheck.
EntryBlock(l) ==
    /\ KernelReady
    /\ ewPc[l] = "entry"
    /\ ewPc' = [ewPc EXCEPT ![l] = IF VecCheck(gid[l]) THEN "vector" ELSE "scalar"]
    /\ UNCHANGED <<size, gid, arrays, accesses, analyzerVars, kernelVars, generatorVars>>

\* vector: load Width floats at Input + GlobalId, apply the operation,
\* store them at Output + GlobalId.
VectorBlock(l) ==
    /\ ewPc[l] = "vector"
    /\ LET base == GEPOffset(gid[l])
           W == kinfo.VectorWidth
           a == OperationAnalyzer(loop)
       IN  /\ \E undef \in Undef :
                 LET Vec == LoadElements(InputArray, base, W, undef)
                     Result == [k \in 0..(W - 1) |-> ApplyOperation(a, Vec[k])]
                 IN  arrays' = StoreElements(OutputArray, base, W, Result)
           /\ accesses' = accesses
                 \cup {Access(l, "vector", "load", InputArray, base + k) : k \in 0..(W - 1)}
                 \cup {Access(l, "vector", "store", OutputArray, base + k) : k \in 0..(W - 1)}
    /\ ewPc' = [ewPc EXCEPT ![l] = "exit"]
    /\ UNCHANGED <<size, gid, analyzerVars, kernelVars, generatorVars>>

\* scalar: load Input[GlobalId], apply the operation, store Output[GlobalId].
ScalarBlock(l) ==
    /\ ewPc[l] = "scalar"
    /\ LET base == GEPOffset(gid[l])
           a == OperationAnalyzer(loop)
       IN  /\ \E undef \in Undef :
                 LET ScalarVal == LoadElements(InputArray, base, 1, undef)
                     Result == [k \in {0} |-> ApplyOperation(a, ScalarVal[k])]
                 IN  arrays' = StoreElements(OutputArray, base, 1, Result)
           /\ accesses' = accesses
                 \cup {Access(l, "scalar", "load", InputArray, base),
                       Access(l, "scalar", "store", OutputArray, base)}
    /\ ewPc' = [ewPc EXCEPT ![l] = "exit"]
    /\ UNCHANGED <<size, gid, analyzerVars, kernelVars, generatorVars>>

GeneratorNext ==
    \/ GenerateKernel
    \/ \E l \in EwLanes :
          \/ EntryBlock(l)
          \/ VectorBlock(l)
          \/ ScalarBlock(l)

GeneratorSpec == GeneratorInit /\ [][GeneratorNext]_vars

(***************************************************************************)
(* What the claims speak of.                                               *)
(***************************************************************************)
Range(seq) == {seq[k] : k \in 1..Len(seq)}
IsPrefix(a, b) == Len(a) <= Len(b) /\ SubSeq(b, 1, Len(a)) = a
BodyNodes(FS) == Range(Preorder(FS.Body))

\* The analyzers' answers for a loop, each run on its own.
DepOf(FS) == DepChecker(FS, <<>>).HasDependencies
RedOf(FS) == isReductionLoop(FS, <<>>).IsReduction
TypesUniform(FS) == ~checkTypes(FS.Body, <<>>).HasMixedTypes
CondHasLiteralBound(FS) ==
    FS.Cond.kind = "BinaryOperator" /\ FS.Cond.kids[2].kind = "IntegerLiteral"

\* Some subscript of the body has the index <induction variable> - 1.
HasInductionMinusOne(FS) ==
    \E a \in BodyNodes(FS) :
        /\ a.kind = "ArraySubscriptExpr"
        /\ LET idx == IgnoreParenImpCasts(a.kids[2])
           IN  /\ idx.kind = "BinaryOperator" /\ idx.op = "BO_Sub"
               /\ IgnoreParenImpCasts(idx.kids[1]).kind = "DeclRefExpr"
               /\ IgnoreParenImpCasts(idx.kids[1]).name = FS.ivar
               /\ IgnoreParenImpCasts(idx.kids[2]).kind = "IntegerLiteral"
               /\ IgnoreParenImpCasts(idx.kids[2]).val = 1

\* Some subscript of the body has an index <anything> - 1.
HasAnyMinusOne(FS) ==
    \E a \in BodyNodes(FS) :
        /\ a.kind = "ArraySubscriptExpr"
        /\ LET idx == IgnoreParenImpCasts(a.kids[2])
           IN  /\ idx.kind = "BinaryOperator" /\ idx.op = "BO_Sub"
               /\ IgnoreParenImpCasts(idx.kids[2]).kind = "IntegerLiteral"
               /\ IgnoreParenImpCasts(idx.kids[2]).val = 1

ArithOps == {"BO_Add", "BO_Sub", "BO_Mul", "BO_Div", "BO_Rem"}
IsLiteral(e) == e.kind \in {"IntegerLiteral", "FloatingLiteral"}

\* Some arithmetic operation of the body combines an array element with a
\* literal constant, in either order.
HasLiteralArithOnElement(FS) ==
    \E b \in BodyNodes(FS) :
        /\ b.kind = "BinaryOperator" /\ b.op \in ArithOps
        /\ LET l == IgnoreParenImpCasts(b.kids[1])
               r == IgnoreParenImpCasts(b.kids[2])
           IN  \/ l.kind = "ArraySubscriptExpr" /\ IsLiteral(r)
               \/ r.kind = "ArraySubscriptExpr" /\ IsLiteral(l)

\* Some assignment to an array element has as right-hand side
\* <array element> op <literal>.
HasElementAssignOfLiteralArith(FS) ==
    \E b \in BodyNodes(FS) :
        /\ b.kind = "BinaryOperator" /\ b.op = "BO_Assign"
        /\ IgnoreParenImpCasts(b.kids[1]).kind = "ArraySubscriptExpr"
        /\ LET rhs == IgnoreParenImpCasts(b.kids[2])
           IN  /\ rhs.kind = "BinaryOperator" /\ rhs.op \in ArithOps
               /\ IgnoreParenImpCasts(rhs.kids[1]).kind = "ArraySubscriptExpr"
               /\ IsLiteral(IgnoreParenImpCasts(rhs.kids[2]))

\* Some compound assignment of the body has a named scalar on its left.
HasScalarCompoundAssign(FS) ==
    \E b \in BodyNodes(FS) :
        /\ b.kind = "BinaryOperator"
        /\ b.op \in {"BO_AddAssign", "BO_SubAssign", "BO_MulAssign", "BO_DivAssign"}
        /\ IgnoreParenImpCasts(b.kids[1]).kind = "DeclRefExpr"
        /\ IgnoreParenImpCasts(b.kids[1]).type \in {"int", "float"}

CondIN == Compare("BO_LT", DeclRef("i"), DeclRef("n"))
\* for(i = 0; i < n; i++) arr[i] = arr[i] * 2.0f;
ScenarioA == ForStmt("i", CondIN, CompoundStmt(<<StmtScale>>))
\* for(i = 0; i < n; i++) arr[i] = (float)iarr[i];
ScenarioD == ForStmt("i", CondIN, CompoundStmt(<<StmtCast>>))

(***************************************************************************)
(* C1: the verdict's isVectorizable equals (hasConstantTripCount OR        *)
(* isReduction OR simplePattern) AND (NOT hasDependencies OR isReduction)  *)
(* AND type uniformity, each operand being its analyzer's answer for the   *)
(* loop.                                                                   *)
(***************************************************************************)
C1_DecisionFormula ==
    pc = "done" =>
        /\ Info.HasConstantTripCount = CondHasLiteralBound(loop)
        /\ Info.IsReduction = RedOf(loop)
        /\ Info.IsSimplePattern = isSimpleVectorizablePattern(loop)
        /\ HasDependencies = DepOf(loop)
        /\ Info.IsVectorizable =
              (/\ (CondHasLiteralBound(loop) \/ RedOf(loop)
                     \/ isSimpleVectorizablePattern(loop))
               /\ (~DepOf(loop) \/ RedOf(loop))
               /\ TypesUniform(loop))

\* A simple-pattern loop with neither a constant trip count nor a reduction
\* was accepted.
C1_Witness ==
    /\ pc = "done"
    /\ Info.IsVectorizable
    /\ Info.IsSimplePattern
    /\ ~Info.HasConstantTripCount
    /\ ~Info.IsReduction

(***************************************************************************)
(* C2: in a vectorizable verdict the width is 4 for a reduction, 8 for a   *)
(* non-reduction with a constant trip count of at least 8, and 4           *)
(* otherwise; so it is 4 or 8.                                             *)
(***************************************************************************)
C2_WidthSelection ==
    (pc = "done" /\ Info.IsVectorizable) =>
        /\ Info.IsReduction => Info.RecommendedWidth = 4
        /\ (~Info.IsReduction /\ Info.HasConstantTripCount /\ Info.TripCount >= 8)
               => Info.RecommendedWidth = 8
        /\ (~Info.IsReduction /\ ~(Info.HasConstantTripCount /\ Info.TripCount >= 8))
               => Info.RecommendedWidth = 4
        /\ Info.RecommendedWidth \in {4, 8}

\* A vectorizable reduction with a constant trip count of at least 8.
C2_Witness ==
    /\ pc = "done"
    /\ Info.IsVectorizable
    /\ Info.IsReduction
    /\ Info.HasConstantTripCount
    /\ Info.TripCount >= 8
    /\ Info.RecommendedWidth = 4

(***************************************************************************)
(* C3, as stated: a loop with no induction-minus-one subscript and with a  *)
(* literal-constant arithmetic operation on an array element is            *)
(* vectorizable.                                                           *)
(***************************************************************************)
C3_Original ==
    (pc = "done" /\ ~HasInductionMinusOne(loop) /\ HasLiteralArithOnElement(loop))
        => Info.IsVectorizable

(***************************************************************************)
(* C3, amended: a loop with no subscript whose index subtracts the literal *)
(* 1, with an assignment to an array element of <array element> op         *)
(* <literal>, and with uniform computation types is vectorizable; for      *)
(* arr[i] = arr[i] * 2.0f under i < n, not as a reduction and with width 4.*)
(***************************************************************************)
C3_SimplePatternVectorizable ==
    pc = "done" =>
        /\ (~HasAnyMinusOne(loop) /\ HasElementAssignOfLiteralArith(loop)
               /\ TypesUniform(loop))
             => Info.IsVectorizable
        /\ loop = ScenarioA
             => (Info.IsVectorizable /\ ~Info.IsReduction /\ Info.RecommendedWidth = 4)

\* Such a loop, with an integer literal, accepted on its pattern alone.
C3_Witness ==
    /\ pc = "done"
    /\ ~HasAnyMinusOne(loop)
    /\ HasElementAssignOfLiteralArith(loop)
    /\ TypesUniform(loop)
    /\ ~CondHasLiteralBound(loop)
    /\ ~RedOf(loop)
    /\ StmtIRem \in Range(loop.Body.kids)
    /\ Info.IsVectorizable

(***************************************************************************)
(* C4, as stated: constant trip count >= 8 and no detected dependency give *)
(* width 8; constant trip count < 8 and no detected dependency give width 4*)
(***************************************************************************)
C4_Original ==
    (pc = "done" /\ Info.HasConstantTripCount /\ ~HasDependencies) =>
        /\ Info.TripCount >= 8 => Info.RecommendedWidth = 8
        /\ Info.TripCount < 8 => Info.RecommendedWidth = 4

(***************************************************************************)
(* C4, amended: with no detected dependency and uniform computation types, *)
(* a constant trip count >= 8 gives width 8 unless the loop is a reduction *)
(* (then 4), and a constant trip count < 8 gives width 4.                  *)
(***************************************************************************)
C4_WidthByTripCount ==
    (pc = "done" /\ CondHasLiteralBound(loop) /\ ~DepOf(loop) /\ TypesUniform(loop)) =>
        /\ (loop.Cond.kids[2].val >= 8 /\ ~RedOf(loop)) => Info.RecommendedWidth = 8
        /\ (loop.Cond.kids[2].val >= 8 /\ RedOf(loop)) => Info.RecommendedWidth = 4
        /\ loop.Cond.kids[2].val < 8 => Info.RecommendedWidth = 4

\* A non-reduction loop with the trip count exactly 8 got width 8.
C4_Witness ==
    /\ pc = "done"
    /\ CondHasLiteralBound(loop)
    /\ loop.Cond.kids[2].val = 8
    /\ ~DepOf(loop)
    /\ ~RedOf(loop)
    /\ TypesUniform(loop)
    /\ Info.RecommendedWidth = 8

(***************************************************************************)
(* C5, as stated: a loop with a compound assignment to a named scalar has  *)
(* isReduction true and width 4.                                           *)
(***************************************************************************)
C5_Original ==
    (pc = "done" /\ HasScalarCompoundAssign(loop)) =>
        (Info.IsReduction /\ Info.RecommendedWidth = 4)

(***************************************************************************)
(* C5, amended: a loop with a compound assignment to a named scalar has    *)
(* isReduction true; with uniform computation types it is vectorizable     *)
(* with width 4, a detected dependency or not; with mixed computation      *)
(* types it is rejected and its width stays 0.                             *)
(***************************************************************************)
C5_ReductionWidth ==
    (pc = "done" /\ HasScalarCompoundAssign(loop)) =>
        /\ Info.IsReduction
        /\ TypesUniform(loop) => (Info.IsVectorizable /\ Info.RecommendedWidth = 4)
        /\ ~TypesUniform(loop) => (~Info.IsVectorizable /\ Info.RecommendedWidth = 0)

\* A reduction with a detected dependency got width 4.
C5_Witness ==
    /\ pc = "done"
    /\ HasScalarCompoundAssign(loop)
    /\ HasDependencies
    /\ Info.IsReduction
    /\ Info.RecommendedWidth = 4

(***************************************************************************)
(* C6: a loop whose body combines two or more computation types is not     *)
(* vectorizable and its reasons contain a mixed-types entry.               *)
(***************************************************************************)
C6_MixedTypesReported ==
    (pc = "done" /\ ~TypesUniform(loop)) =>
        (~Info.IsVectorizable /\ MixedTypesReason \in Range(Info.Reasons))

(***************************************************************************)
(* C7, as stated: the reasons appear in the order trip-count finding,      *)
(* pattern finding, dependency finding, type finding, final decision.      *)
(***************************************************************************)
StatedRank(r) ==
    CASE r.text = TripCountReason(0).text -> 1
      [] r.text = SimplePatternReason.text -> 2
      [] r.text = ReductionReason("").text -> 2
      [] r.text = DependencyReason.text -> 3
      [] r.text = MixedTypesReason.text -> 4
      [] r.text = FinalDependencyReason.text -> 5

C7_Original ==
    pc = "done" =>
        \A a, b \in 1..Len(Info.Reasons) :
            a < b => StatedRank(Info.Reasons[a]) <= StatedRank(Info.Reasons[b])

(***************************************************************************)
(* C7, amended: every step of the analysis only appends to the reasons,    *)
(* and the entries appear in the order dependency finding, trip-count      *)
(* finding, simple-pattern finding, reduction finding, type finding, final *)
(* decision.                                                               *)
(***************************************************************************)
CodeRank(r) ==
    CASE r.text = DependencyReason.text -> 1
      [] r.text = TripCountReason(0).text -> 2
      [] r.text = SimplePatternReason.text -> 3
      [] r.text = ReductionReason("").text -> 4
      [] r.text = MixedTypesReason.text -> 5
      [] r.text = FinalDependencyReason.text -> 6

InCodeOrder(reasons) ==
    \A a, b \in 1..Len(reasons) :
        a < b => CodeRank(reasons[a]) <= CodeRank(reasons[b])

C7_AppendOnlyInCodeOrder ==
    [][IsPrefix(Info.Reasons, Info.Reasons') /\ InCodeOrder(Info.Reasons')]_vars

\* A verdict whose dependency entry precedes its trip-count entry, followed
\* by a reduction, a type and a final entry.
C7_Witness ==
    /\ pc = "done"
    /\ Len(Info.Reasons) >= 5
    /\ Info.Reasons[1] = DependencyReason
    /\ \E k \in TripLiterals : Info.Reasons[2] = TripCountReason(k)
    /\ MixedTypesReason \in Range(Info.Reasons)
    /\ Info.Reasons[Len(Info.Reasons)] = FinalDependencyReason

(***************************************************************************)
(* C8: with a dependency detected and no reduction detected the loop is    *)
(* rejected, the reasons contain the dependency explanation and end with   *)
(* the final "cannot be vectorized due to dependencies" message; that      *)
(* message is there if and only if a dependency was found and the loop was *)
(* rejected.                                                               *)
(***************************************************************************)
C8_DependencyRejection ==
    pc = "done" =>
        /\ (DepOf(loop) /\ ~RedOf(loop)) =>
              /\ ~Info.IsVectorizable
              /\ DependencyReason \in Range(Info.Reasons)
              /\ Info.Reasons[Len(Info.Reasons)] = FinalDependencyReason
        /\ (FinalDependencyReason \in Range(Info.Reasons))
              <=> (DepOf(loop) /\ ~Info.IsVectorizable)

\* A loop rejected for its dependency ends with the final message.
C8_Witness ==
    /\ pc = "done"
    /\ DepOf(loop)
    /\ ~RedOf(loop)
    /\ ~Info.IsVectorizable
    /\ Info.Reasons[Len(Info.Reasons)] = FinalDependencyReason

(***************************************************************************)
(* C9, as stated: a condition whose right operand is not an integer        *)
(* literal and whose left operand is a bare reference to the loop variable *)
(* gives hasConstantTripCount true with a "predictable access pattern"     *)
(* reason; any other non-literal condition gives false.                    *)
(***************************************************************************)
CondIsBareVarAgainstNonLiteral(FS) ==
    /\ FS.Cond.kind = "BinaryOperator"
    /\ FS.Cond.kids[2].kind # "IntegerLiteral"
    /\ IgnoreParenImpCasts(FS.Cond.kids[1]).kind = "DeclRefExpr"
    /\ IgnoreParenImpCasts(FS.Cond.kids[1]).name = FS.ivar

C9_Original ==
    pc = "done" =>
        /\ CondIsBareVarAgainstNonLiteral(loop) =>
              /\ Info.HasConstantTripCount
              /\ \E r \in Range(Info.Reasons) :
                     r.text = "Loop control variable with predictable access pattern"
        /\ (~CondIsBareVarAgainstNonLiteral(loop) /\ ~CondHasLiteralBound(loop))
              => ~Info.HasConstantTripCount

(***************************************************************************)
(* C9, amended: hasConstantTripCount is true exactly when the condition is *)
(* a binary operator whose right operand is an integer literal; every      *)
(* other condition, i < n included, gives hasConstantTripCount false, trip *)
(* count 0 and no trip-count or "predictable access pattern" reason.       *)
(***************************************************************************)
C9_NoFallback ==
    pc = "done" =>
        /\ Info.HasConstantTripCount <=> CondHasLiteralBound(loop)
        /\ ~CondHasLiteralBound(loop) =>
              /\ Info.TripCount = 0
              /\ \A r \in Range(Info.Reasons) :
                     r.text \notin {TripCountReason(0).text,
                                    "Loop control variable with predictable access pattern"}

\* The analysis of a loop bounded by i < n ended without a constant trip count.
C9_Witness ==
    /\ pc = "done"
    /\ CondIsBareVarAgainstNonLiteral(loop)
    /\ ~Info.HasConstantTripCount

(***************************************************************************)
(* C10: in every execution of the reduction kernel by a work group, only   *)
(* the lane with localId 0 performs the atomic add, once and sequentially  *)
(* consistent; no other lane enters the atomic block, and the lanes go on  *)
(* until all are at the exit block, where exactly one atomic add was done. *)
(***************************************************************************)
AllAtExit == \A l \in Lanes : lanePc[l].at = "exit"

PartialSum ==
    performVectorReduction(createVectorLoad(input, kinfo.VectorWidth),
                           kinfo.VectorWidth)

RECURSIVE SumOfPartials(_)
SumOfPartials(k) == IF k = 0 THEN 0 ELSE SumOfPartials(k - 1) + PartialSum

C11_AtomicAddsGroupSum ==
    \A k \in 1..Len(atomics) : atomics[k].value = SumOfPartials(groupSize)

(***************************************************************************)
(* C12: a barrier separates the partial-sum store from the first tree      *)
(* round and every round from the next: no lane is in round k+1 (testing   *)
(* its range, reading slots, or reading slot 0 for the atomic add) before  *)
(* every lane of the group has finished its writes of round k.             *)
(***************************************************************************)
\* Lane m has finished the stores of round r (round 0: the partial sum).
WritesDone(m, r) ==
    \/ lanePc[m].round > r
    \/ lanePc[m].round = r /\ lanePc[m].at = "barrier"

C12_BarrierSeparatesRounds ==
    \A l \in Lanes :
        lanePc[l].round >= 1 =>
            \A m \in Lanes : WritesDone(m, lanePc[l].round - 1)

\* Lane 0 reads its slots in the second round while lane 1 still waits at
\* the barrier that ended the first.
C12_Witness ==
    /\ groupSize >= 2
    /\ lanePc[0] = At("reduce", 2)
    /\ lanePc[1] = At("barrier", 1)

(***************************************************************************)
(* C16: analyzeWithOptimizer is total: for every loop, a loop without a    *)
(* condition or with a condition that is no binary comparison included, it *)
(* never fails, and the verdict it returns for such a loop has             *)
(* hasConstantTripCount false.                                             *)
(***************************************************************************)
C16_AnalysisTotal ==
    /\ pc # "crashed"
    /\ (pc = "done" /\ loop.Cond.kind # "BinaryOperator") =>
           (~Info.HasConstantTripCount /\ Info.TripCount = 0)

(***************************************************************************)
(* C17: every verdict with isVectorizable false carries at least one       *)
(* reason: the reasons of a rejected loop are never empty.                 *)
(***************************************************************************)
C17_RejectedHasReason ==
    (pc = "done" /\ ~Info.IsVectorizable) => Len(Info.Reasons) >= 1

(***************************************************************************)
(* C19: with several compound assignments to named scalars in the body,    *)
(* the reduction detector records the first one in traversal order as the  *)
(* reduction variable and appends exactly one reduction reason, naming     *)
(* it; only += -= *= /= on a direct scalar reference count.                *)
(***************************************************************************)
IsReductionReason(r) == r.text = ReductionReason("").text
ReductionReasonsOf(reasons) == SelectSeq(reasons, IsReductionReason)

\* The compound assignments with a direct variable reference on the left,
\* in traversal order: those with one of the operators of ops.
IsCompoundOnScalar(n) ==
    /\ n.kind = "BinaryOperator"
    /\ isCompoundAssignmentOp(n)
    /\ IgnoreParenImpCasts(n.kids[1]).kind = "DeclRefExpr"
IsArithCompoundOnScalar(n) ==
    /\ IsCompoundOnScalar(n)
    /\ n.op \in {"BO_AddAssign", "BO_SubAssign", "BO_MulAssign", "BO_DivAssign"}
CompoundsOnScalar(FS) == SelectSeq(Preorder(FS.Body), IsCompoundOnScalar)
ArithCompoundsOnScalar(FS) == SelectSeq(Preorder(FS.Body), IsArithCompoundOnScalar)
TargetOf(n) == IgnoreParenImpCasts(n.kids[1]).name

ReductionDone == pc \in {"decide", "finish", "done"}

\* The statement as the specification words it.
C19_Original ==
    ReductionDone =>
        LET m == ArithCompoundsOnScalar(loop)
            c == isReductionLoop(loop, <<>>)
        IN  /\ Info.IsReduction <=> (m # <<>>)
            /\ m # <<>> =>
                 /\ c.ReductionVar = TargetOf(m[1])
                 /\ ReductionReasonsOf(Info.Reasons)
                        = <<ReductionReason(TargetOf(m[1]))>>
            /\ m = <<>> => ReductionReasonsOf(Info.Reasons) = <<>>

\* What holds: every compound assignment, of any compound operator, to a
\* direct variable reference counts; one reason is appended for each, in
\* traversal order, and the last one is the recorded reduction variable.
C19_EveryMatchReportedLastWins ==
    ReductionDone =>
        LET m == CompoundsOnScalar(loop)
            c == isReductionLoop(loop, <<>>)
        IN  /\ Info.IsReduction <=> (m # <<>>)
            /\ Len(ReductionReasonsOf(Info.Reasons)) = Len(m)
            /\ \A k \in 1..Len(m) :
                   ReductionReasonsOf(Info.Reasons)[k] = ReductionReason(TargetOf(m[k]))
            /\ m # <<>> => c.ReductionVar = TargetOf(m[Len(m)])
            /\ m = <<>> => c.ReductionVar = ""

\* Two compound assignments to different scalars, the second with %=.
C19_Witness ==
    /\ ReductionDone
    /\ Len(CompoundsOnScalar(loop)) = 2
    /\ TargetOf(CompoundsOnScalar(loop)[1]) = "sum"
    /\ TargetOf(CompoundsOnScalar(loop)[2]) = "isum"
    /\ CompoundsOnScalar(loop)[2].op = "BO_RemAssign"
    /\ Len(ReductionReasonsOf(Info.Reasons)) = 2

(***************************************************************************)
(* C20: a loop-carried dependency is reported if and only if some array    *)
(* subscript of the body has the index v - 1 with v the loop's induction   *)
(* variable; an index of any other form (v + k, v - 2, x - 1 with x not    *)
(* the induction variable) is never reported.                              *)
(***************************************************************************)
IsDependencyReason(r) == r = DependencyReason
DependencyReasonsOf(reasons) == SelectSeq(reasons, IsDependencyReason)
IsSubscriptMinusOne(n) ==
    /\ n.kind = "ArraySubscriptExpr"
    /\ LET idx == IgnoreParenImpCasts(n.kids[2])
       IN  /\ idx.kind = "BinaryOperator" /\ idx.op = "BO_Sub"
           /\ IgnoreParenImpCasts(idx.kids[2]).kind = "IntegerLiteral"
           /\ IgnoreParenImpCasts(idx.kids[2]).val = 1
DependenciesDone == pc \notin {"deps"}

\* The statement as the specification words it.
C20_Original ==
    DependenciesDone =>
        /\ HasDependencies <=> HasInductionMinusOne(loop)
        /\ (DependencyReasonsOf(Info.Reasons) # <<>>) <=> HasInductionMinusOne(loop)

\* What holds: one dependency is reported for every subscript whose index
\* is <anything> - 1, whatever stands on the left of the subtraction; no
\* other index form is reported.
C20_AnyMinusOneReported ==
    DependenciesDone =>
        /\ HasDependencies <=> HasAnyMinusOne(loop)
        /\ Len(DependencyReasonsOf(Info.Reasons))
               = Len(SelectSeq(Preorder(loop.Body), IsSubscriptMinusOne))

\* arr[j-1] alone in the body, reported; and arr[i-2], arr[i+1] not.
C20_Witness ==
    /\ DependenciesDone
    /\ HasDependencies
    /\ ~HasInductionMinusOne(loop)
    /\ Len(DependencyReasonsOf(Info.Reasons)) = 1
    /\ \E k \in 1..Len(loop.Body.kids) : loop.Body.kids[k] \in {StmtIm2, StmtCopy}

(***************************************************************************)
(* C13: in the elementwise kernel, for every 32-bit global id g and size   *)
(* n, the vector branch is taken only when all of g .. g+width-1 are below *)
(* n, so the vector load and store never touch an element at an index      *)
(* >= n, also when g + width - 1 overflows 32 bits.                        *)
(***************************************************************************)
\* g + width - 1 < n in unbounded arithmetic, for g of 32 bits.
AllIndicesBelowSize(g) ==
    /\ g.hi = 0
    /\ g.lo + (kinfo.VectorWidth - 1) < size

C13_VectorAccessInBounds ==
    /\ \A l \in EwLanes : ewPc[l] = "vector" => AllIndicesBelowSize(gid[l])
    /\ \A a \in accesses :
          a.block = "vector" => (0 <= a.index /\ a.index < size)

(***************************************************************************)
(* C14: when the collected argument list yields a kernel function with     *)
(* fewer than the 3 parameters the kernel body uses, generateKernel        *)
(* returns false and reads no parameter position that does not exist.      *)
(***************************************************************************)
C14_FewParametersRejected ==
    \A k \in 1..Len(calls) :
        Len(calls[k].params) < 3 =>
            /\ calls[k].result = "false"
            /\ calls[k].read \subseteq 1..Len(calls[k].params)

(***************************************************************************)
(* C15: generateKernel called twice with the same loop and verdict gives   *)
(* the same kernel name both times, and the module after the second call   *)
(* is isomorphic to the module after the first.                            *)
(***************************************************************************)
\* The same functions, position by position, up to their names.
Isomorphic(m1, m2) ==
    /\ Len(m1) = Len(m2)
    /\ \A k \in 1..Len(m1) :
          /\ m1[k].params = m2[k].params
          /\ m1[k].kind = m2[k].kind

C15_GenerationIdempotent ==
    \A k \in 2..Len(calls) :
        (/\ calls[k].result = "true" /\ calls[k - 1].result = "true"
         /\ Len(calls[k].params) = 3) =>
            /\ calls[k].Name = calls[k - 1].Name
            /\ calls[k].function = calls[k - 1].function
            /\ Isomorphic(calls[k].module, calls[k - 1].module)

(***************************************************************************)
(* C18: the descriptor's argument list holds each pointer or global        *)
(* variable of the loop body exactly once, in order of first occurrence,   *)
(* and the elementwise kernel has one pointer parameter per such distinct  *)
(* variable and a trailing integer size parameter.                         *)
(***************************************************************************)
IsPointerRef(n) == n.kind = "DeclRefExpr" /\ isPointerType(VarType(n.name))
PointerRefs(FS) == SelectSeq(Preorder(FS.Body), IsPointerRef)
DistinctPointerVars(FS) == {PointerRefs(FS)[k].name : k \in 1..Len(PointerRefs(FS))}

C18_ArgumentsDeduplicated ==
    \A k \in 1..Len(calls) :
        LET Args == calls[k].Arguments
        IN  /\ \A i, j \in 1..Len(Args) : Args[i] = Args[j] => i = j
            /\ {Args[i] : i \in 1..Len(Args)} = DistinctPointerVars(loop)
            /\ ~kinfo.IsReduction =>
                  /\ Len(calls[k].params) = Cardinality(DistinctPointerVars(loop)) + 1
                  /\ calls[k].params[Len(calls[k].params)] = "i32"

(***************************************************************************)
(* C22: in the reduction kernel each lane loads the width-element slice of *)
(* Input that its global id assigns to it (elements g*width .. g*width +   *)
(* width-1 for global id g, so different lanes load disjoint slices), and  *)
(* the partial sum a lane stores to its slot is the sum of the elements of *)
(* its own slice.  One work group is run, so a lane's global id is its     *)
(* local id.                                                               *)
(***************************************************************************)
\* The sum of the Width elements of Input that start at element first.
RECURSIVE SumFrom(_, _)
SumFrom(first, Width) ==
    IF Width = 0 THEN 0
    ELSE SumFrom(first, Width - 1) + input[first + Width]

\* The sum of the slice of the lane with global id g.
SliceSum(g) == SumFrom(g * kinfo.VectorWidth, kinfo.VectorWidth)

C22_LaneSumsOwnSlice ==
    \A l \in Lanes :
        lanePc[l] = At("barrier", 0) => localMem[l][l] = SliceSum(l)

(***************************************************************************)
(* C23: the tree reduction runs one round for each step 1, 2, 4, ... that  *)
(* is strictly below the actual size of the work group and no round for a  *)
(* larger step, and the number of lanes that add in a round is half the    *)
(* number of lanes that added in the round before it.                      *)
(***************************************************************************)
\* The lanes that take the block reduce_<step> of round r.
Adders(r) == {l \in Lanes : InRange(l, Rounds[r], groupSize)}

\* Lane l is in round r >= 1: at its branch, its reduce block or its barrier.
InRound(l, r) ==
    /\ lanePc[l].round = r
    /\ lanePc[l].at \in {"check", "reduce", "barrier"}

C23_RoundsBelowGroupSize ==
    \A l \in Lanes : \A r \in 1..NumRounds :
        InRound(l, r) =>
            /\ Rounds[r] < groupSize
            /\ lanePc[l].at = "reduce" => l \in Adders(r)
            /\ r >= 2 => 2 * Cardinality(Adders(r)) = Cardinality(Adders(r - 1))

\* The second half of the statement alone, for the rounds the first half
\* allows.
C23_AddersHalved ==
    \A l \in Lanes : \A r \in 2..NumRounds :
        (InRound(l, r) /\ Rounds[r] < groupSize) =>
            2 * Cardinality(Adders(r)) = Cardinality(Adders(r - 1))

(***************************************************************************)
(* C26: in the reduction kernel, for every work-group size up to           *)
(* MaxWorkGroupSize and every lane of the group, every access to the local *)
(* buffer (the store of the partial sum at slot LocalId, and the accesses  *)
(* of a tree round at slots LocalId and LocalId + step) uses an index      *)
(* below the number of slots the buffer was allocated with,                *)
(* PreferredWorkGroupSize.                                                 *)
(***************************************************************************)
\* Lane l has run the block reduce_<step> of round r.
HasReduced(l, r) ==
    /\ InRange(l, Rounds[r], groupSize)
    /\ \/ lanePc[l].round > r
       \/ lanePc[l].round = r /\ lanePc[l].at \in {"barrier", "fault"}

\* The slots of local_mem lane l has accessed so far.
SlotsAccessed(l) ==
    (IF lanePc[l] = At("entry", 0) THEN {} ELSE {l})
        \cup {l + Rounds[r] : r \in {q \in 1..NumRounds : HasReduced(l, q)}}

C26_LocalBufferIndexInBounds ==
    \A l \in Lanes :
        \A idx \in SlotsAccessed(l) : idx < kinfo.PreferredWorkGroupSize

(***************************************************************************)
(* C25: every lane of a work group that runs the reduction kernel          *)
(* eventually reaches the exit block, for every work-group size: all lanes *)
(* of the group pass the same sequence of barriers, none of which lies on  *)
(* a path only some lanes take, so no lane waits at a barrier for ever.    *)
(***************************************************************************)
C25_EveryLaneReachesExit == <>AllAtExit

(***************************************************************************)
(* C21: for a loop accepted as the simple pattern a[i] = a[i] op c, with   *)
(* op one of + - * / and c a numeric literal (floating or integer), both   *)
(* the vector branch and the scalar branch of the elementwise kernel store *)
(* x op c for the loaded x, with that op and that constant; when the body  *)
(* has no such operation with a literal constant, both branches store the  *)
(* loaded value unchanged.  Stated for a kernel run by one lane, so that   *)
(* every element it stores was loaded with the value it had at launch.     *)
(***************************************************************************)
\* The operation and constant of the body's statement a[i] = a[i] op c.
StatedOperation(FS) ==
    LET st == FS.Body.kids[1]
        rhs == IgnoreParenImpCasts(getRHS(st))
    IN  IF /\ st.kind = "BinaryOperator" /\ st.op = "BO_Assign"
           /\ rhs.kind = "BinaryOperator"
           /\ rhs.op \in {"BO_Add", "BO_Sub", "BO_Mul", "BO_Div"}
           /\ IsLiteral(IgnoreParenImpCasts(getRHS(rhs)))
        THEN [op |-> rhs.op, c |-> IgnoreParenImpCasts(getRHS(rhs)).val]
        ELSE [op |-> "identity", c |-> 0]

\* x op c for the stated operation.
StatedResult(FS, x) ==
    LET s == StatedOperation(FS)
    IN  CASE s.op = "BO_Add" -> x + s.c
          [] s.op = "BO_Sub" -> x - s.c
          [] s.op = "BO_Mul" -> x * s.c
          [] s.op = "BO_Div" -> x \div s.c
          [] OTHER -> x

\* One lane runs the kernel of a loop of one statement that reads and
\* assigns the same array.
OneLaneInPlace ==
    /\ KernelReady
    /\ Len(gid) = 1
    /\ Len(loop.Body.kids) = 1
    /\ InputArray = OutputArray
    /\ isSimpleVectorizablePattern(loop) \/ StatedOperation(loop).op = "identity"

C21_BranchesApplyStatedOperation ==
    OneLaneInPlace =>
        \A a \in accesses :
            (a.kind = "store" /\ InBounds(a.array, a.index)) =>
                arrays[a.array][a.index + 1]
                    = StatedResult(loop, InitialArray[a.index + 1])

\* The same for the loops whose constant is a floating literal.
C21_FloatingLiteralOnly ==
    (OneLaneInPlace /\ loop.Body.kids # <<StmtScaleInt>>) =>
        \A a \in accesses :
            (a.kind = "store" /\ InBounds(a.array, a.index)) =>
                arrays[a.array][a.index + 1]
                    = StatedResult(loop, InitialArray[a.index + 1])

(***************************************************************************)
(* C27: for a loop dst[i] = src[i] op c turned into an elementwise kernel, *)
(* the kernel loads from the parameter bound to the array the loop reads   *)
(* (src) and stores only to the parameter bound to the array the loop      *)
(* assigns (dst); an array the body only reads is left unchanged by the    *)
(* kernel; and the value the lane index is compared against as the size    *)
(* bound is the trailing size parameter.                                   *)
(***************************************************************************)
\* The array a subscript expression indexes.
ArrayOf(ase) == IgnoreParenImpCasts(ase.kids[1]).name

\* The body is one statement <element> = <element> op <operand>.
IsElementwiseAssign(FS) ==
    /\ Len(FS.Body.kids) = 1
    /\ LET st == FS.Body.kids[1]
           rhs == IgnoreParenImpCasts(getRHS(st))
       IN  /\ st.kind = "BinaryOperator" /\ st.op = "BO_Assign"
           /\ getLHS(st).kind = "ArraySubscriptExpr"
           /\ rhs.kind = "BinaryOperator"
           /\ IgnoreParenImpCasts(getLHS(rhs)).kind = "ArraySubscriptExpr"

\* The array the statement assigns, and the array it reads.
AssignedArray(FS) == ArrayOf(getLHS(FS.Body.kids[1]))
ReadArray(FS) ==
    ArrayOf(IgnoreParenImpCasts(getLHS(IgnoreParenImpCasts(getRHS(FS.Body.kids[1])))))

C27_LoadsSourceStoresDestination ==
    (KernelReady /\ IsElementwiseAssign(loop)) =>
        /\ \A a \in accesses :
              /\ a.kind = "load" => a.array = ReadArray(loop)
              /\ a.kind = "store" => a.array = AssignedArray(loop)
        /\ ReadArray(loop) # AssignedArray(loop) =>
              arrays[ReadArray(loop)] = InitialArray
        /\ 3 \in calls[1].read
        /\ Len(calls[1].params) = 3 /\ calls[1].params[3] = "i32"

\* The same for the loops that read and assign one array.
C27_InPlaceLoops ==
    (KernelReady /\ IsElementwiseAssign(loop)
        /\ ReadArray(loop) = AssignedArray(loop)) =>
        \A a \in accesses : a.array = AssignedArray(loop)

(***************************************************************************)
(* C24: when the elementwise kernel is run by concurrent lanes over an     *)
(* array of n elements (n need not be a multiple of the width), then under *)
(* every interleaving each element of [0, n) has the extracted operation   *)
(* applied exactly once, the tail of fewer than width elements one element *)
(* at a time, so that the array ends as the sequential loop leaves it.     *)
(* Stated for the elements the launched lanes store to: each is stored by  *)
(* one lane only, and ends with the operation applied once to the value it *)
(* had at launch.  The lanes have distinct global ids below n.             *)
(***************************************************************************)
AllLanesAtExit == \A l \in EwLanes : ewPc[l] = "exit"

\* The lanes are launched over the array: distinct global ids in [0, n).
LaunchedOverArray ==
    /\ \A l \in EwLanes : gid[l].hi = 0 /\ gid[l].lo < size
    /\ \A l, m \in EwLanes : l # m => gid[l] # gid[m]

\* The lanes that have stored to element i.
Storers(i) == {a.lane : a \in {b \in accesses : b.kind = "store" /\ b.index = i}}

\* The loop is a[i] = a[i] op c with an operation the kernel applies.
IsInPlaceOperation(FS) ==
    /\ IsElementwiseAssign(FS)
    /\ ReadArray(FS) = AssignedArray(FS)
    /\ OperationAnalyzer(FS).HasOperation

C24_EachElementOnce ==
    (KernelReady /\ IsInPlaceOperation(loop) /\ LaunchedOverArray /\ AllLanesAtExit) =>
        \A i \in 0..(size - 1) :
            /\ Cardinality(Storers(i)) <= 1
            /\ Storers(i) # {} =>
                  arrays[OutputArray][i + 1]
                      = ApplyOperation(OperationAnalyzer(loop), InitialArray[i + 1])

\* The same when no two vector-branch lanes are within width of each other.
C24_LanesApart ==
    (KernelReady /\ IsInPlaceOperation(loop) /\ LaunchedOverArray /\ AllLanesAtExit
        /\ \A l, m \in EwLanes :
              l # m => \/ gid[l].lo + kinfo.VectorWidth <= gid[m].lo
                       \/ gid[m].lo + kinfo.VectorWidth <= gid[l].lo
                       \/ ~VecCheck(gid[l]) /\ ~VecCheck(gid[m])) =>
        \A i \in 0..(size - 1) :
            /\ Cardinality(Storers(i)) <= 1
            /\ Storers(i) # {} =>
                  arrays[OutputArray][i + 1]
                      = ApplyOperation(OperationAnalyzer(loop), InitialArray[i + 1])

====
